---- MODULE Spec2Model ----
(***************************************************************************)
(* Model of the vLEI report verifier service (GLEIF-IT/reg-poc-verifier):  *)
(*   - verifier.core.reporting:   Filer, ReportResourceEnd, ReportVerifier *)
(*   - verifier.core.authorizing: Authorizer, AuthorizationDoer            *)
(*   - verifier.core.basing:      VerifierBaser sub-stores                 *)
(* The LMDB sub-stores are modelled as functions and insertion-ordered     *)
(* sequences; every handler is one action, every store write inside a      *)
(* handler is a separate step only in StepSpec.                            *)
(***************************************************************************)
EXTENDS Integers, Sequences, FiniteSets, TLC

VARIABLES
    imgs,      \* vdb.imgs : chunk key (byte string) -> chunk
    stats,     \* vdb.stats: digest -> ReportStats or NoStats
    stts,      \* vdb.stts : status -> insertion-ordered set of digests
    rpts,      \* vdb.rpts : aid -> insertion-ordered set of digests
    accts,     \* vdb.accts: aid -> said of the authorizing credential
    iss,       \* vdb.iss  : said -> Dater of the pending presentation
    rev,       \* vdb.rev  : said -> Dater of the pending revocation
    saved,     \* saids the credential store (reger) has saved
    tel,       \* said -> latest registry (TEL) event of the credential
    now,       \* wall clock (helping.nowUTC), in seconds
    reqs,      \* requests accepted so far (bounded in the guards)
    pend,      \* store writes of a handler in flight (StepSpec only)
    tyme,      \* parity of the scheduler cycle of the last sweep (FairSpec only)
    last       \* what the last handler did, kept for the properties

vars == <<imgs, stats, stts, rpts, accts, iss, rev, saved, tel, now, reqs, pend, tyme, last>>

rptVars == <<imgs, stats, stts, rpts>>

authVars == <<accts, iss, rev, saved, tel, now>>

(***************************************************************************)
(* Bounds of the model                                                     *)
(***************************************************************************)
\* stream.read(4096) of Filer.create, scaled down so that streams of a few
\* bytes span several chunks
ChunkSize == 2
\* uploads (POST /reports) in one behaviour
MaxCreates == 2
\* clock ticks in one behaviour of the escrow engine
MaxTicks == 2
\* escrow entries recorded (presentations and revocations) in one behaviour
MaxRecords == 2

(***************************************************************************)
(* Sequence helpers                                                        *)
(***************************************************************************)
Range(s) == {s[i] : i \in 1..Len(s)}

Min(a, b) == IF a < b THEN a ELSE b

IsPrefix(p, s) == Len(p) <= Len(s) /\ SubSeq(s, 1, Len(p)) = p

\* list.remove / IoSet rem of one member
SeqRemove(s, v) == SelectSeq(s, LAMBDA x : x # v)

\* IoSet add: appended unless already a member
SeqAdd(s, v) == IF v \in Range(s) THEN s ELSE Append(s, v)


(***************************************************************************)
(* Identifiers, key state and statuses                                     *)
(***************************************************************************)
AIDs == {"A1", "A2", "A3", "AX"}

\* hby.kevers: the identifiers whose key state is known; AX is unknown
Kevers == {"A1", "A2", "A3"}

\* kever.verfers: the current signing keys of an identifier, by index
Verfers(aid) == << <<aid, "cur">> >>

\* ReportStatus = Reportage(accepted, verified, failed)
ReportStatus == [accepted |-> "accepted", verified |-> "verified", failed |-> "failed"]

Statuses == {ReportStatus.accepted, ReportStatus.verified, ReportStatus.failed}

NoStats == [submitter |-> "", filename |-> "", status |-> "none",
            contentType |-> "", size |-> 0,
            message |-> [kind |-> "", n |-> 0, who |-> "", files |-> {}]]

\* the message strings the worker stores, by their variable parts
Msg(kind, n, who, files) == [kind |-> kind, n |-> n, who |-> who, files |-> files]

\* ReportStats.message default ""
EmptyMsg == Msg("", 0, "", {})

\* msg=None, the default of Filer.update
NoMsg == Msg("None", 0, "", {})

(***************************************************************************)
(* Digests and chunk keys                                                  *)
(***************************************************************************)
D1 == <<"E", "a">>
D2 == <<"E", "b">>
\* a path segment that is not a full qb64 digest: coring.Diger rejects it
DP == <<"E">>

\* the {dig} path values the HTTP handlers are called with
DigInputs == {D1, D2, DP}

\* coring.Diger(qb64=dig) succeeds
DigerOk(dig) == dig \in {D1, D2}

DigitChars == <<"0", "1", "2", "3", "4", "5", "6", "7", "8", "9">>

RECURSIVE Digits(_)
\* str(idx) of the f-string
Digits(idx) ==
    IF idx < 10 THEN <<DigitChars[idx + 1]>>
    ELSE Digits(idx \div 10) \o <<DigitChars[(idx % 10) + 1]>>

\* f"{dig}.{idx}".encode("utf-8")
ChunkKey(dig, idx) == dig \o <<".">> \o Digits(idx)

\* vdb.delTopVal(db, key): removes every entry whose key starts with key
DelTopVal(db, key) ==
    [k \in {x \in DOMAIN db : ~IsPrefix(key, x)} |-> db[k]]

\* vdb.setVal(db, key, val)
SetVal(db, key, val) ==
    [k \in (DOMAIN db) \cup {key} |-> IF k = key THEN val ELSE db[k]]

\* a read loop that stops at the first short read and drops it
ReadChunksFullOnly(stream) ==
    [i \in 1..(Len(stream) \div ChunkSize) |->
        SubSeq(stream, (i - 1) * ChunkSize + 1, i * ChunkSize)]

RECURSIVE ReadChunks(_)
\* the successive stream.read(ChunkSize) results, up to the empty read
ReadChunks(stream) ==
    IF stream = <<>> THEN <<>>
    ELSE LET n == Min(ChunkSize, Len(stream))
         IN  <<SubSeq(stream, 1, n)>> \o ReadChunks(SubSeq(stream, n + 1, Len(stream)))

RECURSIVE SumLen(_)
\* stats.size += len(chunk)
SumLen(chunks) == IF chunks = <<>> THEN 0 ELSE Len(Head(chunks)) + SumLen(Tail(chunks))

RECURSIVE GetDataFrom(_, _, _)
\* Filer.getData: the chunks from index idx up to the first missing or empty one
GetDataFrom(db, dig, idx) ==
    IF ChunkKey(dig, idx) \notin DOMAIN db \/ db[ChunkKey(dig, idx)] = <<>> THEN <<>>
    ELSE <<db[ChunkKey(dig, idx)]>> \o GetDataFrom(db, dig, idx + 1)

getData(db, dig) == GetDataFrom(db, dig, 0)

RECURSIVE Concat(_)
\* tf.write(chunk) for every chunk
Concat(chunks) == IF chunks = <<>> THEN <<>> ELSE Head(chunks) \o Concat(Tail(chunks))


(***************************************************************************)
(* Report packages: what zipfile.ZipFile(tf).extractall() leaves on disk   *)
(*   tree.tops       the directories directly under the temp directory     *)
(*   tree.pk[t]      top directory t, holding META-INF/ and reports/       *)
(*     .meta         files of META-INF/ other than reports.json -> content *)
(*     .reports      files of reports/ -> content                          *)
(*     .manifest     META-INF/reports.json                                 *)
(* File content "binary" stands for bytes that do not decode as text.      *)
(***************************************************************************)
Ref(dir, name) == [dir |-> dir, name |-> name]

\* one element of documentInfo.signatures; has = the keys the object holds
Entry(file, aid, sigs) ==
    [file |-> file, aid |-> aid, sigs |-> sigs, has |-> {"file", "aid", "sigs"}]

\* a qb64 indexed signature made with key `key` over the text `over`
Sg(aid, over) == [form |-> "ok", key |-> <<aid, "cur">>, index |-> 0, over |-> over]

Manifest(signatures) ==
    [form |-> "json", docInfo |-> TRUE, sigsKey |-> TRUE, signatures |-> signatures]

AbsentManifest ==
    [form |-> "absent", docInfo |-> FALSE, sigsKey |-> FALSE, signatures |-> <<>>]

BadJsonManifest ==
    [form |-> "badjson", docInfo |-> FALSE, sigsKey |-> FALSE, signatures |-> <<>>]

NoFiles == [n \in {} |-> ""]

TwoReports == ("a" :> "ca") @@ ("b" :> "cb")

Pkg(meta, reports, manifest) == [meta |-> meta, reports |-> reports, manifest |-> manifest]

OneTop(pkg) == [tops |-> {"p"}, pk |-> [t \in {"p"} |-> pkg]]

\* reports/a and reports/b, both signed by A1 with its current key
TreeSigned ==
    OneTop(Pkg(NoFiles, TwoReports,
        Manifest(<< Entry(Ref("reports", "a"), "A1", <<Sg("A1", "ca")>>),
                    Entry(Ref("reports", "b"), "A1", <<Sg("A1", "cb")>>) >>)))

\* reports.json is not JSON
TreeBadJson == OneTop(Pkg(NoFiles, TwoReports, BadJsonManifest))

\* the signature on reports/b names key index 1, A1 has one key
TreeBadIndex ==
    OneTop(Pkg(NoFiles, TwoReports,
        Manifest(<< Entry(Ref("reports", "a"), "A1", <<Sg("A1", "ca")>>),
                    Entry(Ref("reports", "b"), "A1",
                          <<[Sg("A1", "cb") EXCEPT !.index = 1]>>) >>)))

\* the signature on reports/b was made over other text
TreeBadSig ==
    OneTop(Pkg(NoFiles, TwoReports,
        Manifest(<< Entry(Ref("reports", "a"), "A1", <<Sg("A1", "ca")>>),
                    Entry(Ref("reports", "b"), "A1", <<Sg("A1", "zz")>>) >>)))

\* gen_no_signatures: the signatures list of the signed package is cleared
TreeNoSigs == OneTop(Pkg(NoFiles, TwoReports, Manifest(<<>>)))

\* gen_missing_signature: the first entry of the signed package is popped
TreeMissingSig ==
    OneTop(Pkg(NoFiles, TwoReports,
        Manifest(<< Entry(Ref("reports", "b"), "A1", <<Sg("A1", "cb")>>) >>)))

\* gen_no_metainf_report_json: META-INF/reports.json is removed; META-INF/
\* keeps its other file
TreeNoManifest == OneTop(Pkg(("reportPackage.json" :> "pk"), TwoReports, AbsentManifest))

\* reports.json is a JSON object without the documentInfo field
TreeNoDocInfo ==
    OneTop(Pkg(NoFiles, TwoReports,
        [form |-> "json", docInfo |-> FALSE, sigsKey |-> FALSE, signatures |-> <<>>]))

\* the signed package whose manifest also signs META-INF/reportPackage.json
TreeSuperset ==
    OneTop(Pkg(("reportPackage.json" :> "pk"), TwoReports,
        Manifest(<< Entry(Ref("reports", "a"), "A1", <<Sg("A1", "ca")>>),
                    Entry(Ref("reports", "b"), "A1", <<Sg("A1", "cb")>>),
                    Entry(Ref("META-INF", "reportPackage.json"), "A1", <<Sg("A1", "pk")>>) >>)))

\* two packages side by side: p/ signed by A1, q/ without reports.json
TreeTwoPkgs ==
    [tops |-> {"p", "q"},
     pk |-> [t \in {"p", "q"} |->
               IF t = "p"
               THEN Pkg(NoFiles, ("a" :> "ca"),
                        Manifest(<< Entry(Ref("reports", "a"), "A1", <<Sg("A1", "ca")>>) >>))
               ELSE Pkg(NoFiles, ("c" :> "cc"), AbsentManifest)]]

BadZip == [tops |-> {}, pk |-> [t \in {} |-> 0]]

\* the archives of the model, as the byte streams that decode to them
Zips ==
    { [bytes |-> <<1, 0, 0>>,       tree |-> TreeSigned],
      [bytes |-> <<2, 0, 0, 0, 0>>, tree |-> TreeBadJson],
      [bytes |-> <<3, 0>>,          tree |-> TreeBadIndex],
      [bytes |-> <<4, 0, 0, 0>>,    tree |-> TreeBadSig],
      [bytes |-> <<5, 0>>,          tree |-> TreeNoSigs],
      [bytes |-> <<6, 0, 0>>,       tree |-> TreeMissingSig],
      [bytes |-> <<7>>,             tree |-> TreeNoManifest],
      [bytes |-> <<8, 0, 0>>,       tree |-> TreeNoDocInfo],
      [bytes |-> <<9, 0, 0>>,       tree |-> TreeSuperset],
      [bytes |-> <<9, 1>>,          tree |-> TreeTwoPkgs] }

\* zipfile.ZipFile(tf): BadZip when the bytes are no archive
Unzip(bytes) ==
    IF \E z \in Zips : z.bytes = bytes
    THEN (CHOOSE z \in Zips : z.bytes = bytes).tree
    ELSE BadZip

\* the multipart parts a POST /reports request carries
Parts ==
    { [name |-> "upload", filename |-> "signed.zip",   typ |-> "application/zip", stream |-> <<1, 0, 0>>],
      [name |-> "upload", filename |-> "badjson.zip",  typ |-> "application/zip", stream |-> <<2, 0, 0, 0, 0>>],
      [name |-> "upload", filename |-> "badindex.zip", typ |-> "application/zip", stream |-> <<3, 0>>],
      [name |-> "upload", filename |-> "empty.zip",    typ |-> "application/zip", stream |-> <<>>],
      [name |-> "file",   filename |-> "signed.zip",   typ |-> "application/zip", stream |-> <<1, 0, 0>>] }


(***************************************************************************)
(* ReportVerifier.recur, the body of the try block for one digest          *)
(***************************************************************************)
\* the orders os.walk may visit the extracted directories in: the order of
\* the top directories, and for each whether META-INF/ comes after reports/
Orders(tree) ==
    { [seq |-> q, metaLast |-> m] :
        q \in {f \in [1..Cardinality(tree.tops) -> tree.tops] :
                 \A i, j \in DOMAIN f : i # j => f[i] # f[j]},
        m \in SUBSET tree.tops }

Visit(top, kind, dirs, files) == [top |-> top, kind |-> kind, dirs |-> dirs, files |-> files]

\* the non-directory entries of META-INF/
MetaFiles(pkg) ==
    (DOMAIN pkg.meta) \cup (IF pkg.manifest.form = "absent" THEN {} ELSE {"reports.json"})

RECURSIVE TopVisits(_, _, _)
TopVisits(tree, seq, metaLast) ==
    IF seq = <<>> THEN <<>>
    ELSE LET t == Head(seq)
             top == Visit(t, "top", {"META-INF", "reports"}, {})
             meta == Visit(t, "meta", {}, MetaFiles(tree.pk[t]))
             reps == Visit(t, "reports", {}, DOMAIN tree.pk[t].reports)
         IN  (IF t \in metaLast THEN <<top, reps, meta>> ELSE <<top, meta, reps>>)
             \o TopVisits(tree, Tail(seq), metaLast)

\* os.walk(tempdirname), top-down
Walk(tree, ord) ==
    <<Visit("", "root", tree.tops, {})>> \o TopVisits(tree, ord.seq, ord.metaLast)

NoExc == [type |-> "", msg |-> EmptyMsg]

Raise(type, msg) == [type |-> type, msg |-> msg]

\* kering.ValidationError(msg)
ValidationError(kind, n, who) == Raise("ValidationError", Msg(kind, n, who, {}))

\* one iteration of `for root, dirs, files in os.walk(tempdirname)`;
\* st.files is the loop variable files, st.metaTop the directory of metaDir
WalkStep(st, v, tree) ==
    IF st.exc.type # "" THEN st
    ELSE IF ~({"META-INF", "reports"} \subseteq v.dirs)
    THEN [st EXCEPT !.files = v.files]
    ELSE LET m == tree.pk[v.top].manifest IN
         IF m.form = "absent"
         THEN [st EXCEPT !.files = v.files, !.metaTop = v.top]
         ELSE IF m.form = "badjson"
         THEN [st EXCEPT !.files = v.files, !.metaTop = v.top,
                         !.exc = Raise("JSONDecodeError", EmptyMsg)]
         ELSE IF ~m.docInfo
         THEN [st EXCEPT !.files = v.files, !.metaTop = v.top, !.manifest = m,
                         !.exc = ValidationError("missing_documentInfo", 0, "")]
         ELSE [st EXCEPT !.files = DOMAIN tree.pk[v.top].reports,
                         !.metaTop = v.top, !.manifest = m]

RECURSIVE WalkLoop(_, _, _)
WalkLoop(st, visits, tree) ==
    IF visits = <<>> THEN st
    ELSE WalkLoop(WalkStep(st, Head(visits), tree), Tail(visits), tree)

\* files = [], manifest = None before the loop
WalkInit == [files |-> {}, manifest |-> AbsentManifest, metaTop |-> "", exc |-> NoExc]

\* the text open(fullpath, 'r').read() returns; "" when open raises OSError
FileText(tree, metaTop, file) ==
    LET pkg == tree.pk[metaTop] IN
    IF file.dir = "reports" /\ file.name \in DOMAIN pkg.reports THEN pkg.reports[file.name]
    ELSE IF file.dir = "META-INF" /\ file.name \in DOMAIN pkg.meta THEN pkg.meta[file.name]
    ELSE IF file.dir = "META-INF" /\ file.name = "reports.json" /\ pkg.manifest.form # "absent"
    THEN "manifest"
    ELSE ""

\* siger.verfer.verify(siger.raw, ser) with verfer = kever.verfers[siger.index]
SigVerifies(sig, aid, ser) == Verfers(aid)[sig.index + 1] = sig.key /\ sig.over = ser

RECURSIVE FirstSigFailure(_, _, _, _)
\* the `for siger in sigers` loop: the first exception it raises, NoExc if none
FirstSigFailure(sigs, aid, ser, name) ==
    IF sigs = <<>> THEN NoExc
    ELSE IF Head(sigs).index + 1 > Len(Verfers(aid))
    THEN Raise("IndexError", EmptyMsg)
    ELSE IF ~SigVerifies(Head(sigs), aid, ser)
    THEN ValidationError("invalid_signature", Head(sigs).index, name)
    ELSE FirstSigFailure(Tail(sigs), aid, ser, name)

\* the body of `for signature in signatures`, st = [signed, exc]
SignatureStep(st, e, tree, metaTop, submitter) ==
    IF st.exc.type # "" THEN st
    ELSE IF "file" \notin e.has
    THEN [st EXCEPT !.exc = ValidationError("missing_key", 0, "file")]
    ELSE LET signed == Append(st.signed, e.file.name)
             ser == FileText(tree, metaTop, e.file)
         IN
         IF ser = ""
         THEN [signed |-> signed, exc |-> ValidationError("invalid_file", 0, e.file.name)]
         ELSE IF ser = "binary"
         THEN [signed |-> signed, exc |-> Raise("UnicodeDecodeError", EmptyMsg)]
         ELSE IF "aid" \notin e.has
         THEN [signed |-> signed, exc |-> ValidationError("missing_key", 0, "aid")]
         ELSE IF e.aid # submitter
         THEN [signed |-> signed, exc |-> NoExc]
         ELSE IF e.aid \notin Kevers
         THEN [signed |-> signed, exc |-> ValidationError("unknown_aid", 0, e.aid)]
         ELSE IF "sigs" \notin e.has
         THEN [signed |-> signed, exc |-> ValidationError("missing_key", 0, "sigs")]
         ELSE IF \E i \in DOMAIN e.sigs : e.sigs[i].form # "ok"
         THEN [signed |-> signed, exc |-> Raise("ExtractionError", EmptyMsg)]
         ELSE IF Len(e.sigs) = 0
         THEN [signed |-> signed, exc |-> ValidationError("missing_signatures", 0, e.file.name)]
         ELSE [signed |-> signed, exc |-> FirstSigFailure(e.sigs, e.aid, ser, e.file.name)]

RECURSIVE SignatureLoop(_, _, _, _, _)
SignatureLoop(st, entries, tree, metaTop, submitter) ==
    IF entries = <<>> THEN st
    ELSE SignatureLoop(SignatureStep(st, Head(entries), tree, metaTop, submitter),
                       Tail(entries), tree, metaTop, submitter)

\* what the try block does: [exc] when it raises, else the status and the
\* message it passes to filer.update
Result(exc, status, msg) == [exc |-> exc, status |-> status, msg |-> msg]

\* lines 404-413: the comparison of the files with the signed names
Compare(files, signed, submitter) ==
    LET diff == files \ Range(signed) IN
    IF Cardinality(diff) = 0
    THEN Result(NoExc, ReportStatus.verified, Msg("all_signed", Cardinality(files), submitter, {}))
    ELSE Result(NoExc, ReportStatus.failed, Msg("not_signed", Cardinality(diff), "", diff))

\* lines 340-413: the verification of the extracted tree
TryTree(tree, ord, submitter) ==
    LET w == WalkLoop(WalkInit, Walk(tree, ord), tree) IN
    IF w.exc.type # "" THEN Result(w.exc, "", EmptyMsg)
    ELSE IF w.manifest.form = "absent"
    THEN Result(ValidationError("no_manifest", 0, ""), "", EmptyMsg)
    ELSE IF ~w.manifest.sigsKey
    THEN Result(ValidationError("no_signatures", 0, ""), "", EmptyMsg)
    ELSE
    LET s == SignatureLoop([signed |-> <<>>, exc |-> NoExc], w.manifest.signatures,
                           tree, w.metaTop, submitter)
    IN  IF s.exc.type # "" THEN Result(s.exc, "", EmptyMsg)
        ELSE Compare(w.files, s.signed, submitter)

\* the try block of lines 324-413 for the stored bytes
TryBlock(bytes, ord, submitter) ==
    LET tree == Unzip(bytes) IN
    IF tree = BadZip THEN Result(Raise("BadZipFile", Msg("bad_zip", 0, "", {})), "", EmptyMsg)
    ELSE TryTree(tree, ord, submitter)

\* an except clause naming zipfile.BadZipFile only
CaughtBadZipOnly(exc) == exc.type \in {"BadZipFile"}

\* the except clause of line 415
Caught(exc) == exc.type \in {"ValidationError", "BadZipFile"}


(***************************************************************************)
(* The store writes of the report pipeline.  Every suber call (add, rem,   *)
(* pin, setVal, delTopVal) is its own LMDB write transaction; a handler is *)
(* the sequence of the writes it issues.                                   *)
(***************************************************************************)
DB == [imgs |-> imgs, stats |-> stats, stts |-> stts, rpts |-> rpts]

Write(op, key, dig, chunk, stat) ==
    [op |-> op, key |-> key, dig |-> dig, chunk |-> chunk, stat |-> stat]

\* one write transaction applied to the store
ApplyWrite(db, w) ==
    CASE w.op = "imgs.delTopVal" -> [db EXCEPT !.imgs = DelTopVal(db.imgs, w.dig)]
      [] w.op = "imgs.setVal"    -> [db EXCEPT !.imgs = SetVal(db.imgs, w.dig, w.chunk)]
      [] w.op = "rpts.add"       -> [db EXCEPT !.rpts[w.key] = SeqAdd(@, w.dig)]
      [] w.op = "stts.add"       -> [db EXCEPT !.stts[w.key] = SeqAdd(@, w.dig)]
      [] w.op = "stts.rem"       -> [db EXCEPT !.stts[w.key] = SeqRemove(@, w.dig)]
      [] w.op = "stats.pin"      -> [db EXCEPT !.stats[w.dig] = w.stat]

RECURSIVE ApplyAll(_, _)
ApplyAll(db, ws) == IF ws = <<>> THEN db ELSE ApplyAll(ApplyWrite(db, Head(ws)), Tail(ws))

RECURSIVE ChunkWrites(_, _, _)
\* lines 94-102: one setVal per chunk read
ChunkWrites(dig, chunks, idx) ==
    IF chunks = <<>> THEN <<>>
    ELSE <<Write("imgs.setVal", "", ChunkKey(dig, idx), Head(chunks), NoStats)>>
         \o ChunkWrites(dig, Tail(chunks), idx + 1)

\* Filer.create without the clearing of the digest's chunk range
CreateWritesNoClear(aid, dig, filename, typ, stream) ==
    LET chunks == ReadChunks(stream)
        st == [submitter |-> aid, filename |-> filename, status |-> ReportStatus.accepted,
               contentType |-> typ, size |-> SumLen(chunks), message |-> EmptyMsg]
    IN  ChunkWrites(dig, chunks, 0)
        \o (IF DigerOk(dig)
            THEN << Write("rpts.add", aid, dig, <<>>, NoStats),
                    Write("stts.add", st.status, dig, <<>>, NoStats),
                    Write("stats.pin", "", dig, <<>>, st) >>
            ELSE <<>>)

\* Filer.create that does not queue the digest in the accepted set
CreateWritesNoQueue(aid, dig, filename, typ, stream) ==
    LET chunks == ReadChunks(stream)
        st == [submitter |-> aid, filename |-> filename, status |-> ReportStatus.accepted,
               contentType |-> typ, size |-> SumLen(chunks), message |-> EmptyMsg]
    IN  <<Write("imgs.delTopVal", "", dig, <<>>, NoStats)>>
        \o ChunkWrites(dig, chunks, 0)
        \o (IF DigerOk(dig)
            THEN << Write("rpts.add", aid, dig, <<>>, NoStats),
                    Write("stats.pin", "", dig, <<>>, st) >>
            ELSE <<>>)

\* Filer.create: the writes it issues; coring.Diger(qb64=dig) of line 104
\* raises on a malformed digest, after the chunks are written
CreateWrites(aid, dig, filename, typ, stream) ==
    LET chunks == ReadChunks(stream)
        st == [submitter |-> aid, filename |-> filename, status |-> ReportStatus.accepted,
               contentType |-> typ, size |-> SumLen(chunks), message |-> EmptyMsg]
    IN  <<Write("imgs.delTopVal", "", dig, <<>>, NoStats)>>
        \o ChunkWrites(dig, chunks, 0)
        \o (IF DigerOk(dig)
            THEN << Write("rpts.add", aid, dig, <<>>, NoStats),
                    Write("stts.add", st.status, dig, <<>>, NoStats),
                    Write("stats.pin", "", dig, <<>>, st) >>
            ELSE <<>>)

\* Filer.update that files a digest without stats under the new status
UpdateWritesNoCheck(db, dig, status, msg) ==
    IF db.stats[dig] = NoStats
    THEN << Write("stts.add", status, dig, <<>>, NoStats) >>
    ELSE LET st == [db.stats[dig] EXCEPT !.status = status,
                                          !.message = IF msg = NoMsg THEN @ ELSE msg]
         IN  << Write("stts.rem", db.stats[dig].status, dig, <<>>, NoStats),
                Write("stts.add", status, dig, <<>>, NoStats),
                Write("stats.pin", "", dig, <<>>, st) >>

\* Filer.update: no write when the digest has no stats (returns False)
UpdateWrites(db, dig, status, msg) ==
    IF db.stats[dig] = NoStats THEN <<>>
    ELSE LET st == [db.stats[dig] EXCEPT !.status = status,
                                          !.message = IF msg = NoMsg THEN @ ELSE msg]
         IN  << Write("stts.rem", db.stats[dig].status, dig, <<>>, NoStats),
                Write("stts.add", status, dig, <<>>, NoStats),
                Write("stats.pin", "", dig, <<>>, st) >>

\* Filer.getAcceptedIter: the members of the accepted set, in insertion order
getAcceptedIter(db) == db.stts[ReportStatus.accepted]

\* a loop body whose except clause sets failed without passing the message
DigestRunsNoReason(db, dig) ==
    IF db.stats[dig] = NoStats
    THEN {[writes |-> <<>>, exc |-> Raise("AttributeError", EmptyMsg)]}
    ELSE LET bytes == Concat(getData(db.imgs, dig))
             tree == Unzip(bytes)
             sub == db.stats[dig].submitter
         IN  { LET r == TryBlock(bytes, ord, sub) IN
               IF r.exc.type = ""
               THEN [writes |-> UpdateWrites(db, dig, r.status, r.msg), exc |-> NoExc]
               ELSE IF Caught(r.exc)
               THEN [writes |-> UpdateWrites(db, dig, ReportStatus.failed, NoMsg),
                     exc |-> NoExc]
               ELSE [writes |-> <<>>, exc |-> r.exc]
               : ord \in Orders(tree) }

\* one pass of the for-loop body of ReportVerifier.recur for digest dig, for
\* every walk order: the writes issued and the exception that escapes
DigestRuns(db, dig) ==
    IF db.stats[dig] = NoStats
    THEN {[writes |-> <<>>, exc |-> Raise("AttributeError", EmptyMsg)]}
    ELSE LET bytes == Concat(getData(db.imgs, dig))
             tree == Unzip(bytes)
             sub == db.stats[dig].submitter
         IN  { LET r == TryBlock(bytes, ord, sub) IN
               IF r.exc.type = ""
               THEN [writes |-> UpdateWrites(db, dig, r.status, r.msg), exc |-> NoExc]
               ELSE IF Caught(r.exc)
               THEN [writes |-> UpdateWrites(db, dig, ReportStatus.failed, r.exc.msg),
                     exc |-> NoExc]
               ELSE [writes |-> <<>>, exc |-> r.exc]
               : ord \in Orders(tree) }

RECURSIVE SweepRuns(_, _, _, _)
\* ReportVerifier.recur over the digests snap still to visit: every run is
\* the writes issued, the digests visited and the exception that ended it
SweepRuns(db, snap, writes, seen) ==
    IF snap = <<>> THEN {[writes |-> writes, seen |-> seen, exc |-> ""]}
    ELSE UNION { IF r.exc.type # ""
                 THEN {[writes |-> writes, seen |-> Append(seen, Head(snap)), exc |-> r.exc.type]}
                 ELSE SweepRuns(ApplyAll(db, r.writes), Tail(snap), writes \o r.writes,
                                Append(seen, Head(snap)))
                 : r \in DigestRuns(db, Head(snap)) }


(***************************************************************************)
(* Authorization escrow engine: credentials and registry state             *)
(***************************************************************************)
NoSaid == ""

\* Authorizer.TimeoutAuth, seconds
TimeoutAuth == 600

EBA_DOCUMENT_SUBMITTER_ROLE == "EBA Document Submitter"

\* Schema.ECR_SCHEMA_SAID
ECR_SCHEMA_SAID == "EEy9PkikFcANV1l7EHukCeXqrzT1hNZjGlUk7wuMO5jw"

\* self.leis: the configured allow-list
LEIs == {"L1", "L2"}

\* the saids in key order, the order the escrow sub-stores iterate in
SaidOrder == <<"S1", "S2", "S3", "S4", "S5", "S6", "S7">>

Saids == Range(SaidOrder)

Creder(schema, i, claims, lei, role, regk, tel0) ==
    [schema |-> schema, i |-> i, claims |-> claims, LEI |-> lei,
     engagementContextRole |-> role, regk |-> regk, tel |-> tel0]

\* the credentials the credential store (reger.creds / reger.ccrd) can hold;
\* claims = the keys of creder.subject, regk = "" for a registry that
\* reger.tevers does not know, tel = the latest TEL event at service start
Creds ==
    [s \in Saids |->
       CASE s = "S1" -> Creder(ECR_SCHEMA_SAID, "A1", {"i", "LEI", "engagementContextRole"},
                               "L1", EBA_DOCUMENT_SUBMITTER_ROLE, "R1", "iss")
         [] s = "S2" -> Creder(ECR_SCHEMA_SAID, "A2", {"i", "LEI", "engagementContextRole"},
                               "L9", EBA_DOCUMENT_SUBMITTER_ROLE, "R1", "none")
         [] s = "S3" -> Creder(ECR_SCHEMA_SAID, "A2", {"i", "LEI", "engagementContextRole"},
                               "L2", "Auditor", "R1", "bis")
         [] s = "S4" -> Creder(ECR_SCHEMA_SAID, "AX", {"i", "LEI", "engagementContextRole"},
                               "L1", EBA_DOCUMENT_SUBMITTER_ROLE, "R1", "brv")
         [] s = "S5" -> Creder("ELegalEntitySchema", "A2", {"i", "LEI"},
                               "L1", "", "", "iss")
         [] s = "S6" -> Creder(ECR_SCHEMA_SAID, "A2", {"i", "engagementContextRole"},
                               "", EBA_DOCUMENT_SUBMITTER_ROLE, "R1", "iss")
         [] s = "S7" -> Creder(ECR_SCHEMA_SAID, "A2", {"i", "LEI", "engagementContextRole"},
                               "L2", EBA_DOCUMENT_SUBMITTER_ROLE, "R1", "iss")]

\* the credentials the credential store holds when the service starts; S7
\* is received and saved later
StoredAtStart == Saids \ {"S7"}

\* coring.Ilks
Ilks == [iss |-> "iss", bis |-> "bis", rev |-> "rev", brv |-> "brv"]

\* the sub-stores the escrow sweep reads and writes
ADB == [iss |-> iss, rev |-> rev, accts |-> accts]

\* CesrSuber.rem(keys)
Rem(db, key) == [k \in (DOMAIN db) \ {key} |-> db[k]]

\* CesrSuber.pin(keys, val)
Pin(db, key, val) == [k \in (DOMAIN db) \cup {key} |-> IF k = key THEN val ELSE db[k]]

\* now - dater.datetime > datetime.timedelta(seconds=self.TimeoutAuth)
Expired(t, dater) == t - dater > TimeoutAuth

\* the items of an escrow sub-store in key order
ItemIter(db) == SelectSeq(SaidOrder, LAMBDA s : s \in DOMAIN db)

AStep(adb, exc) == [adb |-> adb, exc |-> exc]

\* processEcr without the check of the role
processEcrNoRole(adb, said) ==
    LET creder == Creds[said] IN
    IF creder.i \notin Kevers THEN AStep(adb, "")
    ELSE IF "LEI" \notin creder.claims THEN AStep(adb, "KeyError")
    ELSE IF creder.LEI \notin LEIs THEN AStep(adb, "")
    ELSE AStep([adb EXCEPT !.accts[creder.i] = said], "")

\* Authorizer.processEcr
processEcr(adb, said) ==
    LET creder == Creds[said] IN
    IF creder.i \notin Kevers THEN AStep(adb, "")
    ELSE IF "LEI" \notin creder.claims THEN AStep(adb, "KeyError")
    ELSE IF creder.LEI \notin LEIs THEN AStep(adb, "")
    ELSE IF "engagementContextRole" \notin creder.claims THEN AStep(adb, "KeyError")
    ELSE IF creder.engagementContextRole \notin {EBA_DOCUMENT_SUBMITTER_ROLE} THEN AStep(adb, "")
    ELSE AStep([adb EXCEPT !.accts[creder.i] = said], "")

\* a presentation pass that drops an entry whose credential is not stored
PresentationStepDropUnsaved(adb, said, t, sv) ==
    IF Expired(t, adb.iss[said])
    THEN AStep([adb EXCEPT !.iss = Rem(@, said)], "")
    ELSE IF said \in sv
    THEN LET a1 == [adb EXCEPT !.iss = Rem(@, said)] IN
         IF Creds[said].schema = ECR_SCHEMA_SAID
         THEN processEcr(a1, said)
         ELSE AStep(a1, "")
    ELSE AStep([adb EXCEPT !.iss = Rem(@, said)], "")

\* a presentation pass that keeps an entry of another schema for a retry
PresentationStepKeepSchema(adb, said, t, sv) ==
    IF Expired(t, adb.iss[said])
    THEN AStep([adb EXCEPT !.iss = Rem(@, said)], "")
    ELSE IF said \in sv
    THEN IF Creds[said].schema = ECR_SCHEMA_SAID
         THEN processEcr([adb EXCEPT !.iss = Rem(@, said)], said)
         ELSE AStep(adb, "")
    ELSE AStep(adb, "")

\* the loop body of Authorizer.processPresentations for one entry
PresentationStep(adb, said, t, sv) ==
    IF Expired(t, adb.iss[said])
    THEN AStep([adb EXCEPT !.iss = Rem(@, said)], "")
    ELSE IF said \in sv
    THEN LET a1 == [adb EXCEPT !.iss = Rem(@, said)] IN
         IF Creds[said].schema = ECR_SCHEMA_SAID
         THEN processEcr(a1, said)
         ELSE AStep(a1, "")
    ELSE AStep(adb, "")

\* a revocation pass that also deletes the authorization of the holder
RevocationStepDeauth(adb, said, t, sv, tl) ==
    IF Expired(t, adb.rev[said])
    THEN AStep([adb EXCEPT !.rev = Rem(@, said)], "")
    ELSE IF said \notin sv THEN AStep(adb, "")
    ELSE IF Creds[said].regk = "" THEN AStep(adb, "KeyError")
    ELSE IF tl[said] = "none" THEN AStep(adb, "")
    ELSE IF tl[said] \in {Ilks.iss, Ilks.bis} THEN AStep(adb, "")
    ELSE IF tl[said] \in {Ilks.rev, Ilks.brv}
    THEN AStep([adb EXCEPT !.rev = Rem(@, said), !.accts[Creds[said].i] = NoSaid],
               "AttributeError")
    ELSE AStep(adb, "")

\* a revocation pass that drops an entry whose credential is still issued
RevocationStepDropIssued(adb, said, t, sv, tl) ==
    IF Expired(t, adb.rev[said])
    THEN AStep([adb EXCEPT !.rev = Rem(@, said)], "")
    ELSE IF said \notin sv THEN AStep(adb, "")
    ELSE IF Creds[said].regk = "" THEN AStep(adb, "KeyError")
    ELSE IF tl[said] = "none" THEN AStep(adb, "")
    ELSE IF tl[said] \in {Ilks.iss, Ilks.bis} THEN AStep([adb EXCEPT !.rev = Rem(@, said)], "")
    ELSE IF tl[said] \in {Ilks.rev, Ilks.brv}
    THEN AStep([adb EXCEPT !.rev = Rem(@, said)], "AttributeError")
    ELSE AStep(adb, "")

\* the loop body of Authorizer.processRevocations for one entry; vdb.revk
\* is no attribute of VerifierBaser, so line 169 raises AttributeError
RevocationStep(adb, said, t, sv, tl) ==
    IF Expired(t, adb.rev[said])
    THEN AStep([adb EXCEPT !.rev = Rem(@, said)], "")
    ELSE IF said \notin sv THEN AStep(adb, "")
    ELSE IF Creds[said].regk = "" THEN AStep(adb, "KeyError")
    ELSE IF tl[said] = "none" THEN AStep(adb, "")
    ELSE IF tl[said] \in {Ilks.iss, Ilks.bis} THEN AStep(adb, "")
    ELSE IF tl[said] \in {Ilks.rev, Ilks.brv}
    THEN AStep([adb EXCEPT !.rev = Rem(@, said)], "AttributeError")
    ELSE AStep(adb, "")

ARun(adb, exc, seenIss, seenRev) ==
    [adb |-> adb, exc |-> exc, seenIss |-> seenIss, seenRev |-> seenRev]

RECURSIVE RevocationLoop(_, _, _, _, _, _, _)
RevocationLoop(adb, items, t, sv, tl, seenIss, seenRev) ==
    IF items = <<>> THEN ARun(adb, "", seenIss, seenRev)
    ELSE LET r == RevocationStep(adb, Head(items), t, sv, tl) IN
         IF r.exc # "" THEN ARun(r.adb, r.exc, seenIss, Append(seenRev, Head(items)))
         ELSE RevocationLoop(r.adb, Tail(items), t, sv, tl, seenIss,
                             Append(seenRev, Head(items)))

\* Authorizer.processRevocations
processRevocations(adb, t, sv, tl, seenIss) ==
    RevocationLoop(adb, ItemIter(adb.rev), t, sv, tl, seenIss, <<>>)

RECURSIVE PresentationLoop(_, _, _, _, _, _)
\* Authorizer.processPresentations, followed (Authorizer.processEscrows) by
\* processRevocations when no exception has escaped
PresentationLoop(adb, items, t, sv, tl, seenIss) ==
    IF items = <<>> THEN processRevocations(adb, t, sv, tl, seenIss)
    ELSE LET r == PresentationStep(adb, Head(items), t, sv) IN
         IF r.exc # "" THEN ARun(r.adb, r.exc, Append(seenIss, Head(items)), <<>>)
         ELSE PresentationLoop(r.adb, Tail(items), t, sv, tl, Append(seenIss, Head(items)))

\* Authorizer.processEscrows
processEscrows(adb, t, sv, tl) ==
    PresentationLoop(adb, ItemIter(adb.iss), t, sv, tl, <<>>)

(***************************************************************************)
(* Handlers of the report pipeline, each as one action                     *)
(***************************************************************************)
\* the record of the last handler: its inputs, the HTTP status it answered,
\* the exception that escaped it and the entries a sweep visited
Last(op, aid, dig, code, exc, seen) ==
    [op |-> op, aid |-> aid, dig |-> dig, said |-> "", stream |-> <<>>,
     code |-> code, exc |-> exc, seen |-> seen, status |-> "", args |-> <<>>]

SetDB(db) ==
    /\ imgs' = db.imgs
    /\ stats' = db.stats
    /\ stts' = db.stts
    /\ rpts' = db.rpts

\* on_post without the check of the authorization record
on_postNoAuth(aid, dig, part) ==
    /\ pend = <<>>
    /\ UNCHANGED <<authVars, pend, tyme>>
    /\ IF aid \notin Kevers
       THEN /\ last' = Last("on_post", aid, dig, 404, "", <<>>)
            /\ UNCHANGED <<imgs, stats, stts, rpts, reqs>>
       ELSE IF part.name # "upload"
       THEN /\ last' = Last("on_post", aid, dig, 400, "", <<>>)
            /\ UNCHANGED <<imgs, stats, stts, rpts, reqs>>
       ELSE /\ reqs < MaxCreates
            /\ reqs' = reqs + 1
            /\ SetDB(ApplyAll(DB, CreateWrites(aid, dig, part.filename, part.typ, part.stream)))
            /\ last' = [(IF DigerOk(dig)
                         THEN Last("on_post", aid, dig, 202, "", <<>>)
                         ELSE Last("on_post", aid, dig, 500, "ShortageError", <<>>))
                        EXCEPT !.stream = part.stream]

\* ReportResourceEnd.on_post with a form of one part: 404, 403, 400, or
\* Filer.create and 202; a malformed digest makes create raise (code 500)
on_post(aid, dig, part) ==
    /\ pend = <<>>
    /\ UNCHANGED <<authVars, pend, tyme>>
    /\ IF aid \notin Kevers
       THEN /\ last' = Last("on_post", aid, dig, 404, "", <<>>)
            /\ UNCHANGED <<imgs, stats, stts, rpts, reqs>>
       ELSE IF accts[aid] = ""
       THEN /\ last' = Last("on_post", aid, dig, 403, "", <<>>)
            /\ UNCHANGED <<imgs, stats, stts, rpts, reqs>>
       ELSE IF part.name # "upload"
       THEN /\ last' = Last("on_post", aid, dig, 400, "", <<>>)
            /\ UNCHANGED <<imgs, stats, stts, rpts, reqs>>
       ELSE /\ reqs < MaxCreates
            /\ reqs' = reqs + 1
            /\ SetDB(ApplyAll(DB, CreateWrites(aid, dig, part.filename, part.typ, part.stream)))
            /\ last' = [(IF DigerOk(dig)
                         THEN Last("on_post", aid, dig, 202, "", <<>>)
                         ELSE Last("on_post", aid, dig, 500, "ShortageError", <<>>))
                        EXCEPT !.stream = part.stream]

\* ReportVerifier.recur: one sweep over the accepted set; an exception the
\* except clause does not name escapes recur and ends the sweep
sweep ==
    /\ pend = <<>>
    /\ \E run \in SweepRuns(DB, getAcceptedIter(DB), <<>>, <<>>) :
          /\ SetDB(ApplyAll(DB, run.writes))
          /\ last' = Last("recur", "", <<>>, 0, run.exc, run.seen)
    /\ UNCHANGED <<authVars, reqs, pend>>

recur == sweep /\ UNCHANGED tyme

\* the store of a service that has authorized A1 and A2 (see AuthSpec) and
\* holds no report yet
Init ==
    /\ imgs = [k \in {} |-> <<>>]
    /\ stats = [d \in DigInputs |-> NoStats]
    /\ stts = [s \in Statuses |-> <<>>]
    /\ rpts = [a \in AIDs |-> <<>>]
    /\ accts = [a \in AIDs |-> CASE a = "A1" -> "S1" [] a = "A2" -> "S7" [] OTHER -> NoSaid]
    /\ iss = [k \in {} |-> 0]
    /\ rev = [k \in {} |-> 0]
    /\ saved = Saids
    /\ tel = [s \in Saids |-> Creds[s].tel]
    /\ now = 0
    /\ reqs = 0
    /\ pend = <<>>
    /\ tyme = 0
    /\ last = Last("init", "", <<>>, 0, "", <<>>)

Next ==
    \/ \E aid \in AIDs, dig \in DigInputs, part \in Parts : on_post(aid, dig, part)
    \/ recur

Spec == Init /\ [][Next]_vars


(***************************************************************************)
(* Handlers and environment of the escrow engine                           *)
(***************************************************************************)
ALast(op, said, code, exc, seen) ==
    [Last(op, "", <<>>, code, exc, seen) EXCEPT !.said = said]

\* on_put without the test that the body held the credential of the path
on_putNoMatch(said, ctype, found) ==
    /\ UNCHANGED <<rptVars, accts, rev, saved, tel, now, pend, tyme>>
    /\ IF ctype \notin {"application/json+cesr"}
       THEN /\ last' = [ALast("on_put", said, 400, "", <<>>) EXCEPT !.args = <<ctype, found>>]
            /\ UNCHANGED <<iss, reqs>>
       ELSE /\ reqs < MaxRecords
            /\ reqs' = reqs + 1
            /\ iss' = Pin(iss, said, now)
            /\ last' = [ALast("on_put", said, 202, "", <<>>) EXCEPT !.args = <<ctype, found>>]

\* PresentationResourceEndpoint.on_put; found = the parsed body cued a
\* credential whose said is the path said
on_put(said, ctype, found) ==
    /\ UNCHANGED <<rptVars, accts, rev, saved, tel, now, pend, tyme>>
    /\ IF ctype \notin {"application/json+cesr"}
       THEN /\ last' = [ALast("on_put", said, 400, "", <<>>) EXCEPT !.args = <<ctype, found>>]
            /\ UNCHANGED <<iss, reqs>>
       ELSE IF ~found
       THEN /\ last' = [ALast("on_put", said, 400, "", <<>>) EXCEPT !.args = <<ctype, found>>]
            /\ UNCHANGED <<iss, reqs>>
       ELSE /\ reqs < MaxRecords
            /\ reqs' = reqs + 1
            /\ iss' = Pin(iss, said, now)
            /\ last' = [ALast("on_put", said, 202, "", <<>>) EXCEPT !.args = <<ctype, found>>]

\* recordRevocation(said) of the specification: idempotent insert into the
\* revocation escrow (no code under src/ writes vdb.rev)
recordRevocation(said) ==
    /\ reqs < MaxRecords
    /\ reqs' = reqs + 1
    /\ rev' = IF said \in DOMAIN rev THEN rev ELSE Pin(rev, said, now)
    /\ last' = ALast("recordRevocation", said, 0, "", <<>>)
    /\ UNCHANGED <<rptVars, accts, iss, saved, tel, now, pend, tyme>>

\* the credential store saves a credential it has received and verified
CredSaved(said) ==
    /\ said \notin saved
    /\ saved' = saved \cup {said}
    /\ last' = ALast("CredSaved", said, 0, "", <<>>)
    /\ UNCHANGED <<rptVars, accts, iss, rev, tel, now, reqs, pend, tyme>>

\* the registry receives the revocation event of credential S1
TelRevoke(said) ==
    /\ said = "S1"
    /\ tel[said] = Ilks.iss
    /\ tel' = [tel EXCEPT ![said] = Ilks.rev]
    /\ last' = ALast("TelRevoke", said, 0, "", <<>>)
    /\ UNCHANGED <<rptVars, accts, iss, rev, saved, now, reqs, pend, tyme>>

\* the instants the sweeps and requests of a behaviour happen at: 0, then
\* alternately TimeoutAuth seconds and one second later, so that entries are
\* seen at the ages 0, 1, TimeoutAuth and TimeoutAuth + 1
Instant(n) == (n \div 2) * (TimeoutAuth + 1) + (n % 2) * TimeoutAuth

\* the wall clock advances to the next instant
Tick ==
    /\ \E n \in 0..(MaxTicks - 1) : now = Instant(n) /\ now' = Instant(n + 1)
    /\ last' = ALast("Tick", "", 0, "", <<>>)
    /\ UNCHANGED <<rptVars, accts, iss, rev, saved, tel, reqs, pend, tyme>>

\* AuthorizationDoer.recur: processEscrows; last.seen = the presentation
\* entries visited followed by the revocation entries visited
escrowRecur ==
    LET run == processEscrows(ADB, now, saved, tel) IN
    /\ iss' = run.adb.iss
    /\ rev' = run.adb.rev
    /\ accts' = run.adb.accts
    /\ last' = [ALast("processEscrows", "", 0, run.exc, run.seenIss)
                  EXCEPT !.stream = run.seenRev]
    /\ UNCHANGED <<rptVars, saved, tel, now, reqs, pend, tyme>>

\* the credentials revocations are recorded for
RevSaids == {"S1", "S2", "S5", "S7"}

\* a fresh verifier database next to a credential store that already holds
\* every credential but S7
AuthInit ==
    /\ imgs = [k \in {} |-> <<>>]
    /\ stats = [d \in DigInputs |-> NoStats]
    /\ stts = [s \in Statuses |-> <<>>]
    /\ rpts = [a \in AIDs |-> <<>>]
    /\ accts = [a \in AIDs |-> NoSaid]
    /\ iss = [k \in {} |-> 0]
    /\ rev = [k \in {} |-> 0]
    /\ saved = StoredAtStart
    /\ tel = [s \in Saids |-> Creds[s].tel]
    /\ now = 0
    /\ reqs = 0
    /\ pend = <<>>
    /\ tyme = 0
    /\ last = Last("init", "", <<>>, 0, "", <<>>)

AuthNext ==
    \/ \E said \in Saids, ctype \in {"application/json+cesr"},
          found \in BOOLEAN : on_put(said, ctype, found)
    \/ \E said \in RevSaids : recordRevocation(said)
    \/ \E said \in Saids : CredSaved(said)
    \/ \E said \in Saids : TelRevoke(said)
    \/ Tick
    \/ escrowRecur

AuthSpec == AuthInit /\ [][AuthNext]_vars


(***************************************************************************)
(* The report pipeline with every store write as a step of its own: a      *)
(* handler first fixes the writes it will issue (pend), then issues them   *)
(* one at a time; a crash of the process drops the writes not yet issued.  *)
(* A reader sees the store between any two writes.                         *)
(***************************************************************************)
\* ReportResourceEnd.on_post up to the call of Filer.create
beginPost(aid, dig, part) ==
    /\ pend = <<>>
    /\ aid \in Kevers
    /\ accts[aid] # NoSaid
    /\ part.name = "upload"
    /\ reqs < MaxCreates
    /\ reqs' = reqs + 1
    /\ pend' = CreateWrites(aid, dig, part.filename, part.typ, part.stream)
    /\ last' = [Last("on_post", aid, dig, 0, "", <<>>) EXCEPT !.stream = part.stream]
    /\ UNCHANGED <<rptVars, authVars, tyme>>

\* ReportVerifier.recur up to its first store write
beginRecur ==
    /\ pend = <<>>
    /\ \E run \in SweepRuns(DB, getAcceptedIter(DB), <<>>, <<>>) :
          /\ pend' = run.writes
          /\ last' = Last("recur", "", <<>>, 0, run.exc, run.seen)
    /\ UNCHANGED <<rptVars, authVars, reqs, tyme>>

\* the next write transaction of the handler in flight commits
stepWrite ==
    /\ pend # <<>>
    /\ SetDB(ApplyWrite(DB, Head(pend)))
    /\ pend' = Tail(pend)
    /\ UNCHANGED <<authVars, reqs, tyme, last>>

\* the process stops between two writes and is started again
crash ==
    /\ pend # <<>>
    /\ pend' = <<>>
    /\ last' = Last("crash", "", <<>>, 0, "", <<>>)
    /\ UNCHANGED <<rptVars, authVars, reqs, tyme>>

StepNext ==
    \/ \E aid \in AIDs, dig \in DigInputs, part \in Parts : beginPost(aid, dig, part)
    \/ beginRecur
    \/ stepWrite
    \/ crash

StepSpec == Init /\ [][StepNext]_vars

\* ReportVerifier.recur(tyme) in the next cycle of the scheduler
recurCycle == sweep /\ tyme' = 1 - tyme

FairNext ==
    \/ \E aid \in AIDs, dig \in DigInputs, part \in Parts : on_post(aid, dig, part)
    \/ recurCycle

\* the scheduler (hio Doist) runs the doer in every cycle: the cycle time
\* keeps advancing, and only recur advances it
FairSpec == Init /\ [][FairNext]_vars /\ WF_tyme(tyme' = 1 - tyme)


(***************************************************************************)
(* The report pipeline fed with the packages of scripts/sign.py and        *)
(* scripts/gen_test_data.py                                                *)
(***************************************************************************)
Upload(filename, stream) ==
    [name |-> "upload", filename |-> filename, typ |-> "application/zip", stream |-> stream]

PkgParts ==
    { Upload("signed_report.zip", <<1, 0, 0>>),
      Upload("test_MetaInfReportJson_noSigs.zip", <<5, 0>>),
      Upload("test_MetaInfReportJson_missingSig.zip", <<6, 0, 0>>),
      Upload("test_noMetaInfReportJson.zip", <<7>>),
      Upload("test_noDocumentInfo.zip", <<8, 0, 0>>) }

PkgNext ==
    \/ \E aid \in {"A1", "A2"}, dig \in {D1, D2}, part \in PkgParts : on_post(aid, dig, part)
    \/ recur

PkgSpec == Init /\ [][PkgNext]_vars


(***************************************************************************)
(* The status request next to uploads and sweeps                           *)
(***************************************************************************)
\* an on_get that shows a report to its submitter only
GetResponseOwnOnly(aid, dig) ==
    IF aid \notin Kevers THEN [code |-> 404, body |-> NoStats]
    ELSE IF accts[aid] = NoSaid THEN [code |-> 403, body |-> NoStats]
    ELSE IF stats[dig] = NoStats \/ stats[dig].submitter # aid
    THEN [code |-> 404, body |-> NoStats]
    ELSE [code |-> 200, body |-> stats[dig]]

\* the status and the body ReportResourceEnd.on_get answers with: 404 for an
\* unknown aid, 403 without authorization, 404 without stats, else 200 and
\* the stats as JSON
GetResponse(aid, dig) ==
    IF aid \notin Kevers THEN [code |-> 404, body |-> NoStats]
    ELSE IF accts[aid] = NoSaid THEN [code |-> 403, body |-> NoStats]
    ELSE IF stats[dig] = NoStats THEN [code |-> 404, body |-> NoStats]
    ELSE [code |-> 200, body |-> stats[dig]]

\* ReportResourceEnd.on_get; last.args holds the body of the response
on_get(aid, dig) ==
    /\ pend = <<>>
    /\ last' = [Last("on_get", aid, dig, GetResponse(aid, dig).code, "", <<>>)
                  EXCEPT !.args = <<GetResponse(aid, dig).body>>]
    /\ UNCHANGED <<rptVars, authVars, reqs, pend, tyme>>

GetNext ==
    \/ \E aid \in {"A1", "A2"}, dig \in {D1, D2}, part \in PkgParts : on_post(aid, dig, part)
    \/ recur
    \/ \E aid \in AIDs, dig \in DigInputs : on_get(aid, dig)

GetSpec == Init /\ [][GetNext]_vars


(***************************************************************************)
(* The revocation pass called on its own, next to the handlers that fill   *)
(* the authorization index and the revocation escrow                       *)
(***************************************************************************)
\* Authorizer.processRevocations; last.stream = the entries visited
revocationPass ==
    LET run == processRevocations(ADB, now, saved, tel, <<>>) IN
    /\ iss' = run.adb.iss
    /\ rev' = run.adb.rev
    /\ accts' = run.adb.accts
    /\ last' = [ALast("processRevocations", "", 0, run.exc, <<>>)
                  EXCEPT !.stream = run.seenRev]
    /\ UNCHANGED <<rptVars, saved, tel, now, reqs, pend, tyme>>

RevNext ==
    \/ \E said \in {"S1"}, ctype \in {"application/json+cesr"}, found \in {TRUE} :
          on_put(said, ctype, found)
    \/ \E said \in RevSaids : recordRevocation(said)
    \/ \E said \in Saids : CredSaved(said)
    \/ \E said \in Saids : TelRevoke(said)
    \/ Tick
    \/ escrowRecur
    \/ revocationPass

RevSpec == AuthInit /\ [][RevNext]_vars

(***************************************************************************)
(* The report pipeline fed with packages that differ in what the manifest  *)
(* signs and in how many packages the archive holds                        *)
(***************************************************************************)
WalkParts ==
    { Upload("signed.zip", <<1, 0, 0>>),
      Upload("superset.zip", <<9, 0, 0>>),
      Upload("missing.zip", <<6, 0, 0>>),
      Upload("two.zip", <<9, 1>>) }

WalkNext ==
    \/ \E aid \in {"A1"}, dig \in {D1, D2}, part \in WalkParts : on_post(aid, dig, part)
    \/ recur

WalkSpec == Init /\ [][WalkNext]_vars

(***************************************************************************)
(* The query endpoints next to the presentation endpoint and the escrow    *)
(* sweep that fills the authorization index                                *)
(***************************************************************************)
\* AuthorizationResourceEnd.on_get without the test of the key state
authorization_on_getNoKever(aid) ==
    /\ IF accts[aid] = NoSaid
       THEN last' = [ALast("authorization.on_get", "", 403, "", <<>>) EXCEPT !.aid = aid]
       ELSE last' = [ALast("authorization.on_get", accts[aid], 200, "", <<>>) EXCEPT !.aid = aid]
    /\ UNCHANGED <<rptVars, authVars, reqs, pend, tyme>>

\* AuthorizationResourceEnd.on_get: last.aid and last.said are the body of
\* the 200 response
authorization_on_get(aid) ==
    /\ IF aid \notin Kevers
       THEN last' = [ALast("authorization.on_get", "", 404, "", <<>>) EXCEPT !.aid = aid]
       ELSE IF accts[aid] = NoSaid
       THEN last' = [ALast("authorization.on_get", "", 403, "", <<>>) EXCEPT !.aid = aid]
       ELSE last' = [ALast("authorization.on_get", accts[aid], 200, "", <<>>) EXCEPT !.aid = aid]
    /\ UNCHANGED <<rptVars, authVars, reqs, pend, tyme>>

\* RequestVerifierResourceEnd.on_post; sigOk = the detached signature
\* verifies over data with the current key of aid.  Line 256 reads the
\* attribute ververs of the Kever, which it does not have (its key list is
\* verfers, as reporting.py line 394 reads it): AttributeError
verify_on_post(aid, sigOk) ==
    /\ IF aid \notin Kevers
       THEN last' = [ALast("verify.on_post", "", 404, "", <<>>)
                       EXCEPT !.aid = aid, !.args = <<sigOk>>]
       ELSE IF accts[aid] = NoSaid
       THEN last' = [ALast("verify.on_post", "", 403, "", <<>>)
                       EXCEPT !.aid = aid, !.args = <<sigOk>>]
       ELSE last' = [ALast("verify.on_post", "", 500, "AttributeError", <<>>)
                       EXCEPT !.aid = aid, !.args = <<sigOk>>]
    /\ UNCHANGED <<rptVars, authVars, reqs, pend, tyme>>

EndNext ==
    \/ \E said \in {"S1", "S3", "S7"}, ctype \in {"application/json+cesr", "application/json"},
          found \in BOOLEAN : on_put(said, ctype, found)
    \/ \E said \in {"S7"} : CredSaved(said)
    \/ escrowRecur
    \/ \E aid \in AIDs : authorization_on_get(aid)
    \/ \E aid \in AIDs, sigOk \in BOOLEAN : verify_on_post(aid, sigOk)

EndSpec == AuthInit /\ [][EndNext]_vars

(***************************************************************************)
(* The Filer called directly: create and update with any arguments         *)
(***************************************************************************)
MaxCalls == 5

\* Filer.create(aid, dig, filename, typ, stream); last.args keeps the filename
\* and content type passed and the chunks stored under dig when it was called
create(aid, dig, part) ==
    /\ reqs < MaxCalls
    /\ reqs' = reqs + 1
    /\ SetDB(ApplyAll(DB, CreateWrites(aid, dig, part.filename, part.typ, part.stream)))
    /\ last' = [Last("create", aid, dig, 0, IF DigerOk(dig) THEN "" ELSE "ShortageError", <<>>)
                  EXCEPT !.stream = part.stream,
                         !.args = <<part.filename, part.typ, getData(imgs, dig)>>]
    /\ UNCHANGED <<authVars, pend, tyme>>

\* Filer.update(diger, status) with msg left at its default; last.code = 1
\* when it found the record, 0 when it returned False
update(dig, status) ==
    /\ reqs < MaxCalls
    /\ reqs' = reqs + 1
    /\ SetDB(ApplyAll(DB, UpdateWrites(DB, dig, status, NoMsg)))
    /\ last' = [Last("update", "", dig, IF stats[dig] = NoStats THEN 0 ELSE 1, "", <<>>)
                  EXCEPT !.status = status]
    /\ UNCHANGED <<authVars, pend, tyme>>

\* the uploads create is called with: of two, three and one chunk
FilerParts ==
    { Upload("a.zip", <<1, 0, 0>>),
      Upload("long.zip", <<2, 0, 0, 0, 0>>),
      Upload("short.zip", <<7>>) }

FilerNext ==
    \/ \E aid \in {"A1"}, dig \in {D1, D2}, part \in FilerParts :
          create(aid, dig, part)
    \/ \E dig \in {D1, D2}, status \in Statuses : update(dig, status)

FilerSpec == Init /\ [][FilerNext]_vars

(***************************************************************************)
(* Properties                                                              *)
(***************************************************************************)
\* the entry of the manifest covers reports/f for the submitter: its aid is
\* the submitter and its signatures all verify against the current keys
EntryCovers(e, f, text, submitter) ==
    /\ e.has = {"file", "aid", "sigs"}
    /\ e.file = Ref("reports", f)
    /\ e.aid = submitter
    /\ Len(e.sigs) > 0
    /\ \A j \in DOMAIN e.sigs :
          /\ e.sigs[j].form = "ok"
          /\ e.sigs[j].index + 1 <= Len(Verfers(submitter))
          /\ SigVerifies(e.sigs[j], submitter, text)

Covered(tree, submitter) ==
    /\ tree # BadZip
    /\ \E t \in tree.tops :
          LET p == tree.pk[t] IN
          /\ p.manifest.form = "json"
          /\ \A f \in DOMAIN p.reports :
                \E i \in DOMAIN p.manifest.signatures :
                    EntryCovers(p.manifest.signatures[i], f, p.reports[f], submitter)

StoredTree(d) == Unzip(Concat(getData(imgs, d)))

\* C1: a report moves from accepted to verified only if every file under
\* reports/ is covered by a manifest entry of the submitter whose signatures
\* all verify; entries of other signers add nothing to the signed set
C1_VerifiedOnlyIfSubmitterSigned ==
    [][\A d \in DigInputs :
         (stats[d].status = ReportStatus.accepted /\ stats'[d].status = ReportStatus.verified)
            => Covered(StoredTree(d), stats[d].submitter)]_vars

\* the status sets digest d is a member of
StatusSetsOf(d) == {s \in Statuses : d \in Range(stts[s])}

\* C3: after any sequence of create and update calls every digest with a
\* ReportStats record is in the status set of its status and in no other
C3_StatusIndexInvariant ==
    \A d \in DigInputs : stats[d] # NoStats => StatusSetsOf(d) = {stats[d].status}

Terminal == {ReportStatus.verified, ReportStatus.failed}

\* C4: a verified or failed report never changes status again, whatever the
\* operation, and no sweep visits its digest
C4_TerminalStatus ==
    [][\A d \in DigInputs :
         stats[d].status \in Terminal
            => /\ stats'[d].status = stats[d].status
               /\ (last'.op = "recur" => d \notin Range(last'.seen))]_vars

\* C6: no exception escapes a sweep; every digest the sweep visited is
\* verified or failed afterwards and no accepted digest is left unvisited
C6_NoErrorEscapesSweep ==
    last.op = "recur"
       => /\ last.exc = ""
          /\ \A d \in Range(last.seen) : stats[d].status \in Terminal
          /\ stts[ReportStatus.accepted] = <<>>

\* C7: every report in accepted status eventually is verified or failed
C7_AcceptedEventuallyTerminal ==
    \A d \in DigInputs :
        (stats[d].status = ReportStatus.accepted) ~> (stats[d].status \in Terminal)

\* C8: at every point between two store writes a digest with a ReportStats
\* record is in exactly one status set, the one of its status
C8_StatusMoveAtomic ==
    \A d \in DigInputs :
        stats[d] # NoStats
           => /\ Cardinality(StatusSetsOf(d)) = 1
              /\ d \in Range(stts[stats[d].status])

\* C10: after create the chunks getData yields, concatenated, are the bytes
\* of the uploaded stream, and ReportStats.size is the stream's length
C10_RoundTrip ==
    (last.op = "on_post" /\ last.code \in {202, 500})
       => /\ Concat(getData(imgs, last.dig)) = last.stream
          /\ (last.code = 202 => stats[last.dig].size = Len(last.stream))

\* an upload of several chunks, the last one shorter, has been read back
C10_Witness ==
    /\ last.op = "on_post"
    /\ last.code = 202
    /\ Len(getData(imgs, last.dig)) >= 2
    /\ Len(last.stream) % ChunkSize # 0
    /\ Concat(getData(imgs, last.dig)) = last.stream
    /\ stats[last.dig].size = Len(last.stream)


(***************************************************************************)
(* Properties of the escrow engine                                         *)
(***************************************************************************)
\* key-state resolves, the LEI is allow-listed, the role is the required one
Authorizable(said) ==
    /\ Creds[said].i \in Kevers
    /\ "LEI" \in Creds[said].claims
    /\ Creds[said].LEI \in LEIs
    /\ "engagementContextRole" \in Creds[said].claims
    /\ Creds[said].engagementContextRole = EBA_DOCUMENT_SUBMITTER_ROLE

\* the saids the sweep that ended in this state called processEcr with, given
\* the escrow, the clock and the credential store it started from
EcrCalls(issBefore, t, sv, seen) ==
    {s \in Range(seen) :
        /\ ~Expired(t, issBefore[s])
        /\ s \in sv
        /\ Creds[s].schema = ECR_SCHEMA_SAID}

\* C2: processEcr writes AuthorizationRecord[subject] = said iff key state,
\* LEI and role all pass; otherwise the authorization index is unchanged
C2_ProcessEcrIff ==
    [][last'.op = "processEscrows" =>
         LET calls == EcrCalls(iss, now, saved, last'.seen)
             good == {s \in calls : Authorizable(s)}
         IN  /\ \A a \in AIDs :
                   accts'[a] # accts[a] => accts'[a] \in {s \in good : Creds[s].i = a}
             /\ \A s \in good :
                   accts'[Creds[s].i] \in {x \in good : Creds[x].i = Creds[s].i}
             /\ (good = {} => accts' = accts)]_vars

\* an authorization was written by one sweep that also discarded credentials
\* failing exactly one of the three conditions
C2_Witness ==
    /\ last.op = "processEscrows"
    /\ last.exc = ""
    /\ accts["A1"] = "S1"
    /\ "S1" \in Range(last.seen)
    /\ \E s \in Range(last.seen) : ~Authorizable(s) /\ Creds[s].schema = ECR_SCHEMA_SAID
    /\ accts["A2"] = NoSaid

\* C5: the next sweep removes every escrow entry older than TimeoutAuth,
\* whatever the other entries of the sweep are, and an expired presentation
\* writes no authorization
C5_ExpiredRemoved ==
    [][last'.op = "processEscrows" =>
         /\ \A s \in DOMAIN iss : now - iss[s] > TimeoutAuth => s \notin DOMAIN iss'
         /\ \A s \in DOMAIN rev : now - rev[s] > TimeoutAuth => s \notin DOMAIN rev'
         /\ \A a \in AIDs :
               accts'[a] # accts[a] =>
                  (accts'[a] \in DOMAIN iss /\ ~(now - iss[accts'[a]] > TimeoutAuth))]_vars

\* C9: no exception leaves AuthorizationDoer.recur and every entry of both
\* escrows is visited by the sweep
C9_EntriesIndependent ==
    [][last'.op = "processEscrows" =>
         /\ last'.exc = ""
         /\ Range(last'.seen) = DOMAIN iss
         /\ Range(last'.stream) = DOMAIN rev]_vars


(***************************************************************************)
(* Properties of the verification of one package                           *)
(***************************************************************************)
\* the archive holds one package whose manifest is well formed, lists an
\* entry for every file under reports/ and nothing else, every entry being
\* from the submitter with signatures that all verify
FullySigned(tree, submitter) ==
    /\ tree # BadZip
    /\ Cardinality(tree.tops) = 1
    /\ \A t \in tree.tops :
          LET p == tree.pk[t] IN
          /\ p.manifest.form = "json"
          /\ p.manifest.docInfo
          /\ p.manifest.sigsKey
          /\ DOMAIN p.reports # {}
          /\ \A f \in DOMAIN p.reports :
                \E i \in DOMAIN p.manifest.signatures :
                    EntryCovers(p.manifest.signatures[i], f, p.reports[f], submitter)
          /\ \A i \in DOMAIN p.manifest.signatures :
                \E f \in DOMAIN p.reports :
                    EntryCovers(p.manifest.signatures[i], f, p.reports[f], submitter)

\* the files under reports/ of the one package of the archive
ReportFiles(tree) == UNION {DOMAIN tree.pk[t].reports : t \in tree.tops}

\* C11: a sweep that visits an accepted report whose manifest signs every
\* file under reports/, all entries from the submitter and valid, moves it to
\* verified with a message citing the number of report files and the submitter
C11_FullySignedVerified ==
    [][\A d \in DigInputs :
         (/\ last'.op = "recur"
          /\ d \in Range(last'.seen)
          /\ stats[d].status = ReportStatus.accepted
          /\ FullySigned(StoredTree(d), stats[d].submitter))
            => /\ stats'[d].status = ReportStatus.verified
               /\ stats'[d].message =
                     Msg("all_signed", Cardinality(ReportFiles(StoredTree(d))),
                         stats[d].submitter, {})]_vars

\* the files under reports/ that an entry of the manifest covers
CoveredFiles(tree, submitter) ==
    {f \in ReportFiles(tree) :
        \E t \in tree.tops : \E i \in DOMAIN tree.pk[t].manifest.signatures :
            f \in DOMAIN tree.pk[t].reports
            /\ EntryCovers(tree.pk[t].manifest.signatures[i], f, tree.pk[t].reports[f], submitter)}

\* one package, a well-formed manifest whose listed entries all pass, and
\* at least one file under reports/ that no entry covers
PartlySigned(tree, submitter) ==
    /\ tree # BadZip
    /\ Cardinality(tree.tops) = 1
    /\ \A t \in tree.tops :
          LET p == tree.pk[t] IN
          /\ p.manifest.form = "json"
          /\ p.manifest.docInfo
          /\ p.manifest.sigsKey
          /\ \A i \in DOMAIN p.manifest.signatures :
                \E f \in DOMAIN p.reports :
                    EntryCovers(p.manifest.signatures[i], f, p.reports[f], submitter)
    /\ CoveredFiles(tree, submitter) # ReportFiles(tree)

\* C12: a sweep that visits an accepted report whose manifest is well formed
\* and whose entries all pass, but do not cover reports/, moves it to failed
\* with a message listing exactly the uncovered files
C12_UncoveredFailed ==
    [][\A d \in DigInputs :
         (/\ last'.op = "recur"
          /\ d \in Range(last'.seen)
          /\ stats[d].status = ReportStatus.accepted
          /\ PartlySigned(StoredTree(d), stats[d].submitter))
            => LET un == ReportFiles(StoredTree(d)) \ CoveredFiles(StoredTree(d), stats[d].submitter)
               IN  /\ stats'[d].status = ReportStatus.failed
                   /\ stats'[d].message = Msg("not_signed", Cardinality(un), "", un)]_vars

\* the archive is one package with META-INF/ and reports/ whose manifest has
\* the given form
OnePackage(tree, form, docInfo) ==
    /\ tree # BadZip
    /\ Cardinality(tree.tops) = 1
    /\ \A t \in tree.tops :
          tree.pk[t].manifest.form = form /\ tree.pk[t].manifest.docInfo = docInfo

\* C13: a sweep that visits an accepted report without META-INF/reports.json
\* moves it to failed with the no-manifest message; a manifest without
\* documentInfo gives failed with the message naming documentInfo
C13_NoManifestFailed ==
    [][\A d \in DigInputs :
         (/\ last'.op = "recur"
          /\ d \in Range(last'.seen)
          /\ stats[d].status = ReportStatus.accepted)
            => /\ OnePackage(StoredTree(d), "absent", FALSE)
                    => /\ stats'[d].status = ReportStatus.failed
                       /\ stats'[d].message = Msg("no_manifest", 0, "", {})
               /\ OnePackage(StoredTree(d), "json", FALSE)
                    => /\ stats'[d].status = ReportStatus.failed
                       /\ stats'[d].message = Msg("missing_documentInfo", 0, "", {})]_vars

\* both kinds of package have been swept and failed with their messages
C13_Witness ==
    /\ last.op = "recur"
    /\ last.exc = ""
    /\ \E d, e \in Range(last.seen) :
          /\ OnePackage(StoredTree(d), "absent", FALSE)
          /\ stats[d].message = Msg("no_manifest", 0, "", {})
          /\ OnePackage(StoredTree(e), "json", FALSE)
          /\ stats[e].message = Msg("missing_documentInfo", 0, "", {})
          /\ stats[d].status = ReportStatus.failed
          /\ stats[e].status = ReportStatus.failed

\* how many times digest d occurs in the status set s
Occurrences(d, s) == Cardinality({i \in DOMAIN stts[s] : stts[s][i] = d})

\* C14: a second update(digest, status) right after the same call changes
\* nothing in the store, and after it the digest is exactly once in that
\* status set, in no other status set, and its record carries that status
C14_UpdateIdempotent ==
    [][(/\ last.op = "update" /\ last.code = 1
        /\ last'.op = "update"
        /\ last'.dig = last.dig
        /\ last'.status = last.status)
          => /\ UNCHANGED rptVars
             /\ Occurrences(last.dig, last.status)' = 1
             /\ StatusSetsOf(last.dig)' = {last.status}
             /\ stats'[last.dig].status = last.status]_vars

\* C15: a presentation of a said that already has a pending escrow entry
\* leaves the entry and its timestamp as they are
C15_PresentationIdempotent ==
    [][(last'.op = "on_put" /\ last'.said \in DOMAIN iss)
          => (DOMAIN iss' = DOMAIN iss /\ iss'[last'.said] = iss[last'.said])]_vars

\* C16: POST /reports/{aid}/{dig} answers 404 for an aid without key state
\* and otherwise 403 for an aid without an authorization record, writing
\* nothing; whenever it writes, the aid is known and authorized
C16_PostAuthorized ==
    [][last'.op = "on_post" =>
         /\ last'.aid \notin Kevers => (last'.code = 404 /\ UNCHANGED rptVars)
         /\ (last'.aid \in Kevers /\ accts[last'.aid] = NoSaid)
               => (last'.code = 403 /\ UNCHANGED rptVars)
         /\ ~(UNCHANGED rptVars) => (last'.aid \in Kevers /\ accts[last'.aid] # NoSaid)]_vars

\* a known aid without authorization was answered 403 while reports of
\* other submitters are in the store
C16_Witness ==
    /\ last.op = "on_post"
    /\ last.code = 403
    /\ last.aid \in Kevers
    /\ accts[last.aid] = NoSaid
    /\ \E d \in DigInputs : stats[d] # NoStats
    /\ rpts[last.aid] = <<>>

\* C17: GET /authorizations/{aid} answers 404 without key state, else 403
\* without an authorization record, else 200 with the aid and the said the
\* authorization index holds for it; it changes no state
C17_AuthorizationGet ==
    [][last'.op = "authorization.on_get" =>
         /\ UNCHANGED <<rptVars, authVars>>
         /\ last'.code = (IF last'.aid \notin Kevers THEN 404
                          ELSE IF accts[last'.aid] = NoSaid THEN 403 ELSE 200)
         /\ last'.code = 200 => last'.said = accts[last'.aid]]_vars

\* after a sweep authorized A1 with credential S1 the endpoint answered 200
\* with that said
C17_Witness ==
    /\ last.op = "authorization.on_get"
    /\ last.code = 200
    /\ last.aid = "A1"
    /\ last.said = "S1"
    /\ accts["A2"] = NoSaid

\* C18: PUT /presentations/{said} answers 202 and holds an escrow entry for
\* said afterwards exactly when the content type is the accepted one and the
\* body yielded the credential; otherwise 400 and the escrow is unchanged
C18_PresentationPut ==
    [][last'.op = "on_put" =>
         IF last'.args = <<"application/json+cesr", TRUE>>
         THEN /\ last'.code = 202
              /\ last'.said \in DOMAIN iss'
              /\ \A s \in DOMAIN iss \ {last'.said} : s \in DOMAIN iss' /\ iss'[s] = iss[s]
              /\ DOMAIN iss' = DOMAIN iss \cup {last'.said}
         ELSE last'.code = 400 /\ iss' = iss]_vars

\* a presentation was refused for its body while another one is pending
C18_Witness ==
    /\ last.op = "on_put"
    /\ last.code = 400
    /\ last.args = <<"application/json+cesr", FALSE>>
    /\ DOMAIN iss # {}
    /\ last.said \notin DOMAIN iss

\* C19: POST /request/verify/{aid} answers 404 without key state, 403
\* without an authorization record, 401 when the signature does not verify
\* and 202 when it does
C19_RequestVerify ==
    last.op = "verify.on_post"
       => last.code = (IF last.aid \notin Kevers THEN 404
                       ELSE IF accts[last.aid] = NoSaid THEN 403
                       ELSE IF last.args = <<FALSE>> THEN 401 ELSE 202)

\* the entry names a file that exists in the package, is from the submitter
\* and carries signatures that all verify over the file
EntryPasses(e, tree, t, submitter) ==
    /\ e.has = {"file", "aid", "sigs"}
    /\ FileText(tree, t, e.file) \notin {"", "binary"}
    /\ e.aid = submitter
    /\ submitter \in Kevers
    /\ Len(e.sigs) > 0
    /\ \A j \in DOMAIN e.sigs :
          /\ e.sigs[j].form = "ok"
          /\ e.sigs[j].index + 1 <= Len(Verfers(submitter))
          /\ SigVerifies(e.sigs[j], submitter, FileText(tree, t, e.file))

\* one package with a well-formed manifest whose entries all pass
AllEntriesPass(tree, submitter) ==
    /\ tree # BadZip
    /\ Cardinality(tree.tops) = 1
    /\ \A t \in tree.tops :
          LET mf == tree.pk[t].manifest IN
          /\ mf.form = "json" /\ mf.docInfo /\ mf.sigsKey
          /\ \A i \in DOMAIN mf.signatures : EntryPasses(mf.signatures[i], tree, t, submitter)

\* the base names the entries of the manifest sign
SignedNames(tree) ==
    UNION {{tree.pk[t].manifest.signatures[i].file.name :
               i \in DOMAIN tree.pk[t].manifest.signatures} : t \in tree.tops}

\* C21: a swept report whose entries all pass becomes verified exactly when
\* the signed base names equal the base names under reports/, and failed
\* when the sets differ in either direction
C21_VerifiedIffSetsEqual ==
    [][\A d \in DigInputs :
         (/\ last'.op = "recur"
          /\ d \in Range(last'.seen)
          /\ stats[d].status = ReportStatus.accepted
          /\ AllEntriesPass(StoredTree(d), stats[d].submitter))
            => stats'[d].status =
                  (IF SignedNames(StoredTree(d)) = ReportFiles(StoredTree(d))
                   THEN ReportStatus.verified ELSE ReportStatus.failed)]_vars

\* C22: the outcome of verifying an accepted report (status and message,
\* hence the file set compared) is the same for every order of the walk
C22_WalkOrderIndependent ==
    \A d \in Range(stts[ReportStatus.accepted]) :
        stats[d] # NoStats => Cardinality(DigestRuns(DB, d)) = 1

\* the archive reduced to its package t
OnlyPackage(tree, t) == [tops |-> {t}, pk |-> [x \in {t} |-> tree.pk[x]]]

\* the status and message a result of the try block leaves in ReportStats
Outcome(r) ==
    IF r.exc.type = "" THEN <<r.status, r.msg>>
    ELSE IF Caught(r.exc) THEN <<ReportStatus.failed, r.exc.msg>>
    ELSE <<ReportStatus.accepted, EmptyMsg>>

\* what verification gives when it uses the manifest, META-INF directory and
\* reports/ of one package only: the one the walk reaches first
FirstMatchOutcomes(tree, submitter) ==
    UNION {{Outcome(TryTree(OnlyPackage(tree, t), o, submitter)) :
               o \in Orders(OnlyPackage(tree, t))} : t \in tree.tops}

\* C23: when the archive holds several packages, the report is verified with
\* the manifest, META-INF directory and reports/ of the first one walked
C23_FirstMatchWins ==
    [][\A d \in DigInputs :
         (/\ last'.op = "recur"
          /\ d \in Range(last'.seen)
          /\ stats[d].status = ReportStatus.accepted
          /\ StoredTree(d) # BadZip
          /\ Cardinality(StoredTree(d).tops) > 1)
            => <<stats'[d].status, stats'[d].message>>
                  \in FirstMatchOutcomes(StoredTree(d), stats[d].submitter)]_vars

\* a pending revocation whose credential is stored and whose registry shows
\* a revocation event
ConfirmedRevocation(s) ==
    /\ s \in DOMAIN rev
    /\ ~Expired(now, rev[s])
    /\ s \in saved
    /\ Creds[s].regk # ""
    /\ tel[s] \in {Ilks.rev, Ilks.brv}

\* the sweep recorded in l visited the revocation entry s and finished its
\* loop body, the pin of the audit record included
AuditPinned(l, s) ==
    /\ s \in Range(l.stream)
    /\ ~(l.exc # "" /\ s = l.stream[Len(l.stream)])

\* C24: a sweep removes every confirmed revocation from the revocation
\* escrow and records it in the audit store
C24_RevocationAudited ==
    [][last'.op = "processEscrows" =>
         \A s \in Saids :
            ConfirmedRevocation(s) => (s \notin DOMAIN rev' /\ AuditPinned(last', s))]_vars

UndecidedRevocation(s) ==
    /\ s \in DOMAIN rev
    /\ ~Expired(now, rev[s])
    /\ \/ s \notin saved
       \/ Creds[s].regk = ""
       \/ tel[s] = "none"
       \/ tel[s] \in {Ilks.iss, Ilks.bis}

\* C28: a sweep leaves every undecided, non-expired revocation entry in the
\* escrow with its timestamp
C28_UndecidedStaysPending ==
    [][last'.op \in {"processEscrows", "processRevocations"} =>
         \A s \in Saids :
            UndecidedRevocation(s) => (s \in DOMAIN rev' /\ rev'[s] = rev[s])]_vars

\* a pass visited an entry whose credential is issued and one whose
\* credential is not stored, and both are still pending
C28_Witness ==
    /\ last.op = "processRevocations"
    /\ last.exc = ""
    /\ {"S1", "S7"} \subseteq Range(last.stream)
    /\ {"S1", "S7"} \subseteq DOMAIN rev
    /\ tel["S1"] = Ilks.iss
    /\ "S7" \notin saved

\* the presentation entry s is pending, not expired, and the sweep recorded
\* in l reached it
ReachedFresh(l, s) ==
    /\ l.op = "processEscrows"
    /\ s \in Range(l.seen)
    /\ s \in DOMAIN iss
    /\ ~Expired(now, iss[s])

\* C26: a sweep leaves a non-expired presentation whose credential is not
\* stored yet in the escrow with its timestamp and writes no authorization
\* for it; a sweep that reaches it once the credential is stored, still
\* before the timeout, takes it out of the escrow and authorizes the holder
\* if the credential qualifies
C26_PendingUntilAvailable ==
    [][\A s \in Saids :
         /\ (last'.op = "processEscrows" /\ s \in DOMAIN iss
             /\ ~Expired(now, iss[s]) /\ s \notin saved)
               => /\ s \in DOMAIN iss' /\ iss'[s] = iss[s]
                  /\ \A a \in AIDs : accts'[a] = s => accts[a] = s
         /\ (ReachedFresh(last', s) /\ s \in saved)
               => /\ s \notin DOMAIN iss'
                  /\ Authorizable(s) => accts'[Creds[s].i] \in
                        {x \in Range(last'.seen) : Creds[x].i = Creds[s].i}]_vars

\* a sweep has reached the presentation of S7 before the credential was
\* stored and left it pending
C26_Witness ==
    /\ last.op = "processEscrows"
    /\ last.exc = ""
    /\ "S7" \in Range(last.seen)
    /\ "S7" \in DOMAIN iss
    /\ "S7" \notin saved
    /\ accts["A2"] = NoSaid

\* C27: a sweep that reaches a non-expired presentation whose stored
\* credential has another schema than the ECR schema removes the entry and
\* writes no authorization for it
C27_OtherSchemaDropped ==
    [][\A s \in Saids :
         (ReachedFresh(last', s) /\ s \in saved /\ Creds[s].schema # ECR_SCHEMA_SAID)
            => /\ s \notin DOMAIN iss'
               /\ \A a \in AIDs : accts'[a] # s]_vars

\* the sweep dropped the presentation of S5, a credential of another schema
C27_Witness ==
    /\ last.op = "processEscrows"
    /\ "S5" \in Range(last.seen)
    /\ "S5" \notin DOMAIN iss
    /\ now = 0
    /\ \A a \in AIDs : accts[a] = NoSaid

\* the keys of the chunk store that belong to digest d
ChunkKeysOf(db, d) == {k \in DOMAIN db : IsPrefix(d \o <<".">>, k)}

\* C29: create on a digest, also one that already holds an upload of more
\* chunks, leaves under the digest exactly the chunks of the new stream:
\* getData yields the new bytes and no other chunk key of the digest remains
C29_ReuploadReplaces ==
    (last.op = "create")
       => /\ Concat(getData(imgs, last.dig)) = last.stream
          /\ Cardinality(ChunkKeysOf(imgs, last.dig)) = Len(getData(imgs, last.dig))

\* a digest that held three chunks has been uploaded again with a stream of
\* one chunk
C29_Witness ==
    /\ last.op = "create"
    /\ last.exc = ""
    /\ Len(last.args[3]) > Len(getData(imgs, last.dig))
    /\ Len(getData(imgs, last.dig)) = 1
    /\ Concat(getData(imgs, last.dig)) = last.stream

\* C30: when create has returned, ReportStats of the digest holds the
\* submitter, filename and content type passed, with status accepted, and
\* the digest is in the accepted set the next sweep iterates
C30_CreateRecords ==
    (last.op = "create" /\ last.exc = "")
       => /\ stats[last.dig] # NoStats
          /\ stats[last.dig].submitter = last.aid
          /\ stats[last.dig].filename = last.args[1]
          /\ stats[last.dig].contentType = last.args[2]
          /\ stats[last.dig].status = ReportStatus.accepted
          /\ last.dig \in Range(getAcceptedIter(DB))

\* create has returned for a digest whose earlier record had left the
\* accepted state
C30_Witness ==
    /\ last.op = "create"
    /\ last.exc = ""
    /\ reqs >= 3
    /\ stats[last.dig].filename = "short.zip"
    /\ last.dig \in Range(stts[ReportStatus.accepted])
    /\ last.dig \in Range(stts[ReportStatus.verified])

\* C31: update on a digest without a ReportStats record returns False and
\* leaves the chunks, the records, the status sets and the submitter index
\* as they were
C31_UpdateUnknownNoop ==
    [][(last'.op = "update" /\ stats[last'.dig] = NoStats)
          => /\ last'.code = 0
             /\ UNCHANGED <<imgs, stats, stts, rpts>>]_vars

\* update has returned False for a digest without record while another
\* digest has one
C31_Witness ==
    /\ last.op = "update"
    /\ last.code = 0
    /\ stats[last.dig] = NoStats
    /\ \E d \in DigInputs : stats[d] # NoStats
    /\ \A st \in Statuses : last.dig \notin Range(stts[st])

\* C32: a step that moves a report to failed is a sweep of the worker and
\* stores with the status a message that is not empty
C32_FailedHasMessage ==
    [][\A d \in DigInputs :
         (/\ stats'[d] # NoStats
          /\ stats'[d].status = ReportStatus.failed
          /\ (stats[d] = NoStats \/ stats[d].status # ReportStatus.failed))
            => /\ last'.op = "recur"
               /\ d \in Range(last'.seen)
               /\ stats'[d].message.kind # ""
               /\ stats'[d].message # NoMsg]_vars

\* reports have failed in the except clause and in the comparison, each with
\* its message
C32_Witness ==
    /\ last.op = "recur"
    /\ \E d, e \in Range(last.seen) :
          /\ stats[d].status = ReportStatus.failed
          /\ stats[d].message.kind = "no_manifest"
          /\ stats[e].status = ReportStatus.failed
          /\ stats[e].message.kind = "not_signed"

\* C33: create for a digest leaves the chunks, the ReportStats record and
\* the status-set membership of every other digest as they were, also when
\* the digest is a prefix of another one or is rejected as malformed
C33_CreateFrame ==
    [][(last'.op = "on_post" /\ last'.code \in {202, 500})
          => \A d \in DigInputs \ {last'.dig} :
                /\ getData(imgs', d) = getData(imgs, d)
                /\ stats'[d] = stats[d]
                /\ \A st \in Statuses : (d \in Range(stts'[st])) <=> (d \in Range(stts[st]))]_vars

\* C34: whenever no handler is in the middle of its writes, every digest in
\* a status set has a ReportStats record, so the sweep finds the stats of
\* every digest it iterates
C34_MembersHaveStats ==
    pend = <<>>
       => \A st \in Statuses : \A d \in Range(stts[st]) : stats[d] # NoStats

\* the two identifiers agree on having key state and on being authorized
SameStanding(a, b) ==
    /\ (a \in Kevers) <=> (b \in Kevers)
    /\ (accts[a] = NoSaid) <=> (accts[b] = NoSaid)

====
